---- MODULE Spec2Model ----
(***************************************************************************)
(* A model of src/index.ts: the line protocol of the "simple" renderer.    *)
(*                                                                         *)
(* JavaScript strings are modelled as sequences of UTF-16 code units.  An  *)
(* ASCII code unit is written as a one-character TLA+ string, any other    *)
(* by its code point ("u00E1"), and the two halves of a surrogate pair as  *)
(* "<D83D>" and "<DE00>".  String methods are operators over such          *)
(* sequences, with JavaScript's 0-based offsets translated to TLA+'s       *)
(* 1-based ones inside the operator.  Each exported function has its own   *)
(* specification (SpecParse, SpecRepair, SpecStringify, SpecShell,         *)
(* SpecSize) that draws its arguments from a bounded set and calls it;     *)
(* Spec is executeSimpleScript with the events of the renderer's output.   *)
(***************************************************************************)
EXTENDS Integers, Sequences, FiniteSets, TLC

VARIABLES
    pc,                     \* "call" before a pure function has run, "done" after
    line, event,            \* parseSimpleOutput: its argument and its outcome
    text, repaired,         \* repairDiacritics: its argument and its result
    command, serialized,    \* stringifySimpleCommand: its argument and its result
    commands, payload,      \* getSimpleShellCommand: the batch and the payload
    sizeArgs, size,         \* calculateTextWidgetSize: arguments and result
    proc, stdout, settled, promise, jobs, stream, chunks
                            \* executeSimpleScript: see the executor section

vars == <<pc, line, event, text, repaired, command, serialized, commands, payload, sizeArgs, size,
          proc, stdout, settled, promise, jobs, stream, chunks>>

parseVars == <<line, event>>
repairVars == <<text, repaired>>
stringifyVars == <<command, serialized>>
shellVars == <<commands, payload>>
sizeVars == <<sizeArgs, size>>
execVars == <<proc, stdout, settled, promise, jobs, stream, chunks>>

\* The value of a variable that belongs to a function which is not running.
Idle == <<"idle">>

----------------------------------------------------------------------------
(* Bounds of the model *)

\* longest remainder after the prefix of an output line
MaxRest == 5
\* most characters (code points) of a text given to repairDiacritics
MaxTextChars == 4
\* most commands of a batch
MaxBatch == 3
\* longest value given to calculateTextWidgetSize
MaxValueLen == 6
\* most data chunks read from the renderer in one run
MaxChunks == 2

----------------------------------------------------------------------------
(* JavaScript string primitives *)

Min(S) == CHOOSE x \in S : \A y \in S : x <= y
Max(S) == CHOOSE x \in S : \A y \in S : x >= y

\* all strings over alphabet A of length at most n
StringsUpTo(A, n) == UNION {[1..k -> A] : k \in 0..n}

\* String.prototype.slice(from) for 0 <= from
Slice(s, from) == SubSeq(s, from + 1, Len(s))

\* String.prototype.slice(from, to) for 0 <= from, 0 <= to
Slice2(s, from, to) ==
    SubSeq(s, from + 1, IF to > Len(s) THEN Len(s) ELSE to)

\* String.prototype.startsWith(p)
StartsWith(s, p) == Len(s) >= Len(p) /\ SubSeq(s, 1, Len(p)) = p

\* WhiteSpace and LineTerminator code units that occur in the model
IsWhiteSpace(c) == c \in {" ", "\n", "\t", "\r"}

\* String.prototype.trim()
Trim(s) ==
    LET keep == {i \in 1..Len(s) : ~IsWhiteSpace(s[i])}
    IN  IF keep = {} THEN <<>> ELSE SubSeq(s, Min(keep), Max(keep))

\* 1-based position of the first occurrence of sep in s, 0 when there is none
IndexOf(s, sep) ==
    LET hits == {i \in 1..(Len(s) - Len(sep) + 1) :
                    SubSeq(s, i, i + Len(sep) - 1) = sep}
    IN  IF hits = {} THEN 0 ELSE Min(hits)

\* String.prototype.includes(sep)
Includes(s, sep) == IndexOf(s, sep) # 0

\* String.prototype.split(sep) for a non-empty separator
RECURSIVE Split(_, _)
Split(s, sep) ==
    LET k == IndexOf(s, sep)
    IN  IF k = 0
        THEN <<s>>
        ELSE <<SubSeq(s, 1, k - 1)>> \o Split(SubSeq(s, k + Len(sep), Len(s)), sep)

\* Array.prototype.join(sep) over an array of strings
RECURSIVE Join(_, _)
Join(parts, sep) ==
    IF Len(parts) = 0 THEN <<>>
    ELSE IF Len(parts) = 1 THEN parts[1]
    ELSE parts[1] \o sep \o Join(Tail(parts), sep)

Digits == <<"0", "1", "2", "3", "4", "5", "6", "7", "8", "9">>
IsDigit(c) == \E d \in 1..10 : Digits[d] = c
DigitValue(c) == (CHOOSE d \in 1..10 : Digits[d] = c) - 1

\* a JavaScript number: an integer, or NaN
Num(n) == [nan |-> FALSE, n |-> n]
NaN == [nan |-> TRUE, n |-> 0]

RECURSIVE DecimalValue(_)
DecimalValue(s) ==
    IF Len(s) = 0 THEN 0
    ELSE 10 * DecimalValue(SubSeq(s, 1, Len(s) - 1)) + DigitValue(s[Len(s)])

\* Number(s) for the strings of the model: white space is stripped, the empty
\* string is 0, a run of decimal digits is its value, anything else is NaN.
\* (Signs, fractions, exponents, radix prefixes and "Infinity" need code
\* units that no string of the model contains.)
ToNumber(s) ==
    LET t == Trim(s)
    IN  IF \A i \in 1..Len(t) : IsDigit(t[i]) THEN Num(DecimalValue(t)) ELSE NaN

----------------------------------------------------------------------------
(* parseSimpleOutput *)

SEP == <<" ", ":", " ">>
SELECTED == <<"s", "e", "l", "e", "c", "t", "e", "d", ":">>
INPUT == <<"i", "n", "p", "u", "t", ":">>
RANGE == <<"r", "a", "n", "g", "e", ":">>
GARBAGE == <<"g", "a", "r", "b", "a", "g", "e">>

\* outcomes of a call
Return(v) == [kind |-> "return", value |-> v]
Throw(e) == [kind |-> "throw", value |-> e]
Undefined == [type |-> "undefined"]
TypeError == [type |-> "TypeError"]

\* output.slice(10) of the "selected:" branch
SelectedRest(output) == Slice(output, 10)

\* output.slice(7) of the "input:" and "range:" branches
PayloadRest(output) == Slice(output, 7)

\* const [id, value] = rest.split(" : "): a missing element is undefined
Destructure2(parts) ==
    [id |-> parts[1],
     hasValue |-> Len(parts) >= 2,
     value |-> IF Len(parts) >= 2 THEN parts[2] ELSE <<>>]

parseSimpleOutput(output) ==
    IF StartsWith(output, SELECTED)
    THEN Return([type |-> "selection", id |-> Trim(SelectedRest(output))])
    ELSE IF StartsWith(output, INPUT)
    THEN LET d == Destructure2(Split(PayloadRest(output), SEP))
         IN  IF ~d.hasValue
             THEN Throw(TypeError)      \* undefined.trim()
             ELSE Return([type |-> "input", id |-> d.id, value |-> Trim(d.value)])
    ELSE IF StartsWith(output, RANGE)
    THEN LET d == Destructure2(Split(PayloadRest(output), SEP))
         IN  IF ~d.hasValue
             THEN Throw(TypeError)      \* undefined.trim()
             ELSE Return([type |-> "range", id |-> d.id,
                          value |-> ToNumber(Trim(d.value))])
    ELSE Return(Undefined)              \* console.warn, falls off the end

\* the code units of the remainders the parser is exercised on
RestAlphabet == {" ", ":", "a", "7"}
Prefixes == {SELECTED, INPUT, RANGE, <<>>, GARBAGE}
Lines == {p \o r : p \in Prefixes, r \in StringsUpTo(RestAlphabet, MaxRest)}

ParseIdle == event = Idle /\ line = Idle
RepairIdle == text = Idle /\ repaired = Idle
StringifyIdle == command = Idle /\ serialized = Idle
ShellIdle == commands = Idle /\ payload = Idle
SizeIdle == sizeArgs = Idle /\ size = Idle
ExecIdle ==
    /\ proc = Idle /\ stdout = Idle /\ settled = Idle /\ promise = Idle
    /\ jobs = Idle /\ stream = Idle /\ chunks = Idle

InitParse ==
    /\ pc = "call"
    /\ line \in Lines
    /\ event = Idle
    /\ RepairIdle /\ StringifyIdle /\ ShellIdle /\ SizeIdle /\ ExecIdle

CallParse ==
    /\ pc = "call"
    /\ pc' = "done"
    /\ event' = parseSimpleOutput(line)
    /\ UNCHANGED <<line, repairVars, stringifyVars, shellVars, sizeVars, execVars>>

SpecParse == InitParse /\ [][CallParse]_vars

\* C1: for every id and value that do not contain " : ", parsing the line
\* "input:" + id + " : " + value returns the input event with exactly that id
\* and with the value trimmed.
C1_InputKeepsId ==
    (pc = "done" /\ StartsWith(line, INPUT)) =>
        LET rest == SubSeq(line, Len(INPUT) + 1, Len(line))
        IN  \A k \in 0..Len(rest) :
                LET id == SubSeq(rest, 1, k)
                    value == SubSeq(rest, k + Len(SEP) + 1, Len(rest))
                IN  ( /\ k + Len(SEP) <= Len(rest)
                      /\ SubSeq(rest, k + 1, k + Len(SEP)) = SEP
                      /\ ~Includes(id, SEP)
                      /\ ~Includes(value, SEP) )
                    => /\ event.kind = "return"
                       /\ event.value.type = "input"
                       /\ event.value.id = id
                       /\ event.value.value = Trim(value)

\* C2: for every line "selected:" + rest, the parser returns the selection
\* event whose id is rest trimmed, whether or not a space follows the colon.
C2_SelectedStripsMarker ==
    (pc = "done" /\ StartsWith(line, SELECTED)) =>
        /\ event.kind = "return"
        /\ event.value.type = "selection"
        /\ event.value.id = Trim(SubSeq(line, Len(SELECTED) + 1, Len(line)))

\* C10: parseSimpleOutput is total: on every line it returns an event or
\* undefined and never raises.
C10_ParseNeverRaises ==
    pc = "done" => event.kind = "return"

----------------------------------------------------------------------------
(* repairDiacritics *)

\* PROBLEM_LETTERS, one code unit per letter, each written by its code point:
\* e-caron s-caron c-caron r-caron z-caron y-acute a-acute i-acute e-acute
\* u-acute u-ring
PROBLEM_LETTERS ==
    <<"u011B", "u0161", "u010D", "u0159", "u017E", "u00FD",
      "u00E1", "u00ED", "u00E9", "u00FA", "u016F">>

\* the upper-case forms of the same letters, in the same order
UPPER_FORMS ==
    <<"u011A", "u0160", "u010C", "u0158", "u017D", "u00DD",
      "u00C1", "u00CD", "u00C9", "u00DA", "u016E">>

\* the case pairs of the code units of the model: <<lower, upper>>
CasePairs ==
    {<<PROBLEM_LETTERS[k], UPPER_FORMS[k]>> : k \in 1..Len(PROBLEM_LETTERS)}
        \cup {<<"a", "A">>}

UpperUnit(c) ==
    IF \E p \in CasePairs : p[1] = c
    THEN (CHOOSE p \in CasePairs : p[1] = c)[2] ELSE c
LowerUnit(c) ==
    IF \E p \in CasePairs : p[2] = c
    THEN (CHOOSE p \in CasePairs : p[2] = c)[1] ELSE c

\* String.prototype.toUpperCase() / toLowerCase()
ToUpperCase(s) == [i \in 1..Len(s) |-> UpperUnit(s[i])]
ToLowerCase(s) == [i \in 1..Len(s) |-> LowerUnit(s[i])]

\* the two halves of the one astral character of the model (U+1F600)
IsHighSurrogate(c) == c = "<D83D>"
IsLowSurrogate(c) == c = "<DE00>"

\* the string iterator of for...of: one element per code point, a surrogate
\* pair being one element of two code units
RECURSIVE StringIterator(_)
StringIterator(s) ==
    IF Len(s) = 0 THEN <<>>
    ELSE IF Len(s) >= 2 /\ IsHighSurrogate(s[1]) /\ IsLowSurrogate(s[2])
    THEN <<SubSeq(s, 1, 2)>> \o StringIterator(SubSeq(s, 3, Len(s)))
    ELSE <<SubSeq(s, 1, 1)>> \o StringIterator(Tail(s))

\* the body of the loop for one letter at counter i
RepairStep(t, letter, i) ==
    IF Includes(ToUpperCase(PROBLEM_LETTERS), letter)
    THEN IF i # 0
         THEN Slice2(t, 0, i) \o ToLowerCase(letter) \o Slice(t, i + 1)
         ELSE ToLowerCase(letter) \o Slice(t, i + 1)
    ELSE t

\* the for...of loop: letters come from the string the loop started on, the
\* counter i goes up by one per letter
RECURSIVE RepairLoop(_, _, _)
RepairLoop(letters, i, t) ==
    IF Len(letters) = 0 THEN t
    ELSE RepairLoop(Tail(letters), i + 1, RepairStep(t, Head(letters), i))

\* text.slice(-1)
LastUnit(t) == SubSeq(t, Len(t), Len(t))

repairDiacritics(t) ==
    IF Len(t) = 0 THEN t
    ELSE LET r == RepairLoop(StringIterator(t), 0, t)
         IN  IF Includes(PROBLEM_LETTERS, LastUnit(r)) THEN r \o <<".">> ELSE r

\* the characters the texts of the model are made of
TextCharacters ==
    {<<"a">>, <<"A">>, <<"u00E1">>, <<"u00C1">>, <<"u0158">>, <<"<D83D>", "<DE00>">>}

RECURSIVE Flatten(_)
Flatten(ss) == IF Len(ss) = 0 THEN <<>> ELSE Head(ss) \o Flatten(Tail(ss))

Texts == {Flatten(cs) : cs \in StringsUpTo(TextCharacters, MaxTextChars)}

InitRepair ==
    /\ pc = "call"
    /\ text \in Texts
    /\ repaired = Idle
    /\ ParseIdle /\ StringifyIdle /\ ShellIdle /\ SizeIdle /\ ExecIdle

CallRepair ==
    /\ pc = "call"
    /\ pc' = "done"
    /\ repaired' = repairDiacritics(text)
    /\ UNCHANGED <<text, parseVars, stringifyVars, shellVars, sizeVars, execVars>>

SpecRepair == InitRepair /\ [][CallRepair]_vars

IsUpperProblem(c) == \E k \in 1..Len(UPPER_FORMS) : UPPER_FORMS[k] = c
IsLowerProblem(c) == \E k \in 1..Len(PROBLEM_LETTERS) : PROBLEM_LETTERS[k] = c

\* the text with every upper-case problem letter lowered in place
LoweredInPlace(t) ==
    [i \in 1..Len(t) |-> IF IsUpperProblem(t[i]) THEN LowerUnit(t[i]) ELSE t[i]]

\* C8: the empty text is returned unchanged; otherwise every upper-case
\* problem letter, at any position, is replaced by its lower-case form, every
\* other character stays where it is, and one "." is appended exactly when
\* the last character of that result is a lower-case problem letter.
C8_RepairLowersInPlace ==
    pc = "done" =>
        LET low == LoweredInPlace(text)
        IN  repaired =
                IF Len(text) = 0 THEN <<>>
                ELSE IF IsLowerProblem(low[Len(low)]) THEN low \o <<".">>
                ELSE low

\* The same statement restricted to texts without surrogate pairs.
RepairLowersInPlaceBMP ==
    (\A i \in 1..Len(text) : ~IsHighSurrogate(text[i])) => C8_RepairLowersInPlace

----------------------------------------------------------------------------
(* stringifySimpleCommand and getSimpleShellCommand *)

RECURSIVE NaturalToString(_)
NaturalToString(n) ==
    IF n < 10 THEN <<Digits[n + 1]>>
    ELSE NaturalToString(n \div 10) \o <<Digits[(n % 10) + 1]>>

\* String(x) of a number inside Array.prototype.join and template literals
NumberToString(x) ==
    IF x.nan THEN <<"N", "a", "N">>
    ELSE IF x.n < 0 THEN <<"-">> \o NaturalToString(0 - x.n)
    ELSE NaturalToString(x.n)

LABEL == <<"l", "a", "b", "e", "l">>
PARAGRAPH == <<"p", "a", "r", "a", "g", "r", "a", "p", "h">>
BUTTON == <<"b", "u", "t", "t", "o", "n">>
TEXTINPUT == <<"t", "e", "x", "t", "i", "n", "p", "u", "t">>
TEXTAREA == <<"t", "e", "x", "t", "a", "r", "e", "a">>
IMAGE == <<"i", "m", "a", "g", "e">>
RANGEW == <<"r", "a", "n", "g", "e">>
CANVAS == <<"c", "a", "n", "v", "a", "s">>

\* the words of the command types and of the justify values
TypeWord(type) ==
    CASE type = "label" -> LABEL
      [] type = "paragraph" -> PARAGRAPH
      [] type = "button" -> BUTTON
      [] type = "textinput" -> TEXTINPUT
      [] type = "textarea" -> TEXTAREA
      [] type = "image" -> IMAGE
      [] type = "range" -> RANGEW
      [] type = "canvas" -> CANVAS

JustifyWord(j) ==
    CASE j = "left" -> <<"l", "e", "f", "t">>
      [] j = "center" -> <<"c", "e", "n", "t", "e", "r">>
      [] j = "right" -> <<"r", "i", "g", "h", "t">>

TextTypes == {"label", "paragraph", "button", "textinput", "textarea"}
WidgetTypes == TextTypes \cup {"range", "image", "canvas"}

\* id ? `${type}:${id}` : type
HeaderTokenNoIdTest(type, id) == TypeWord(type) \o <<":">> \o id
HeaderToken(type, id) ==
    IF Len(id) # 0 THEN TypeWord(type) \o <<":">> \o id ELSE TypeWord(type)

\* the array [header, rect.x, rect.y, rect.width, rect.height] of every widget
HeadFields(c) ==
    <<HeaderToken(c.type, c.id), NumberToString(c.rect.x), NumberToString(c.rect.y),
      NumberToString(c.rect.width), NumberToString(c.rect.height)>>

SPACE == <<" ">>
NEWLINE == <<"\n">>

stringifySimpleCommand(c) ==
    IF c.type \in TextTypes
    THEN LET joined == Join(HeadFields(c), SPACE)
             result == IF Len(c.value) # 0
                       THEN joined \o SPACE \o repairDiacritics(c.value)
                       ELSE joined
         IN  IF c.type = "textarea" \/ c.type = "paragraph"
             THEN <<"[">> \o result \o <<"]">>
             ELSE result
    ELSE IF c.type = "range"
    THEN Join(HeadFields(c) \o <<NumberToString(c.min), NumberToString(c.max),
                                 NumberToString(c.value)>>, SPACE)
    ELSE IF c.type = "image"
    THEN Join(HeadFields(c) \o <<c.path>>, SPACE)
    ELSE IF c.type = "canvas"
    THEN Join(HeadFields(c) \o <<c.rawPath, c.pngPath>>, SPACE)
    ELSE IF c.type = "justify"
    THEN <<"@", "j", "u", "s", "t", "i", "f", "y", " ">> \o JustifyWord(c.justify)
    ELSE IF c.type = "fontsize"
    THEN <<"@", "f", "o", "n", "t", "s", "i", "z", "e", " ">> \o NumberToString(c.fontSize)
    ELSE IF c.type = "timeout"
    THEN <<"@", "t", "i", "m", "e", "o", "u", "t", " ">> \o NumberToString(c.timeout)
    ELSE <<"@", "n", "o", "c", "l", "e", "a", "r">>

\* commands.map(stringifySimpleCommand)
MapStringify(cs) == [k \in 1..Len(cs) |-> stringifySimpleCommand(cs[k])]

\* a bug: the lines joined without the separator
getSimpleShellCommandNoSeparator(cs) == Join(MapStringify(cs), <<>>)
getSimpleShellCommand(cs) == Join(MapStringify(cs), NEWLINE)

\* the field values the commands of the model are built from
Ids == {<<>>, <<"o", "k">>, <<"u00C1">>}
Rects ==
    {[x |-> Num(0), y |-> Num(12), width |-> Num(340), height |-> Num(0 - 5)],
     [x |-> NaN, y |-> Num(7), width |-> Num(1), height |-> Num(20)]}
Values ==
    {<<>>, <<"a">>, <<"a", " ", "A">>, <<"u00C1">>, <<"a", "\n", "u00E1">>}
Paths == {<<"/", "a">>, <<"u00C1", "u00E1">>}
Numbers == {Num(0), Num(15), NaN}

Commands ==
    [type : TextTypes, id : Ids, rect : Rects, value : Values]
    \cup [type : {"range"}, id : Ids, rect : Rects,
          min : {Num(0)}, max : {Num(15), NaN}, value : Numbers]
    \cup [type : {"image"}, id : Ids, rect : Rects, path : Paths]
    \cup [type : {"canvas"}, id : Ids, rect : Rects, rawPath : Paths, pngPath : Paths]
    \cup [type : {"justify"}, justify : {"left", "center", "right"}]
    \cup [type : {"fontsize"}, fontSize : Numbers]
    \cup [type : {"timeout"}, timeout : Numbers]
    \cup [type : {"noclear"}]

InitStringify ==
    /\ pc = "call"
    /\ command \in Commands
    /\ serialized = Idle
    /\ ParseIdle /\ RepairIdle /\ ShellIdle /\ SizeIdle /\ ExecIdle

CallStringify ==
    /\ pc = "call"
    /\ pc' = "done"
    /\ serialized' = stringifySimpleCommand(command)
    /\ UNCHANGED <<command, parseVars, repairVars, shellVars, sizeVars, execVars>>

SpecStringify == InitStringify /\ [][CallStringify]_vars

BatchRect == [x |-> Num(0), y |-> Num(12), width |-> Num(340), height |-> Num(20)]

\* the commands the batches of the model are made of
BatchCommands ==
    {[type |-> "label", id |-> <<"o", "k">>, rect |-> BatchRect, value |-> <<"a">>],
     [type |-> "paragraph", id |-> <<>>, rect |-> BatchRect, value |-> <<"a", "\n", "u00E1">>],
     [type |-> "button", id |-> <<"o", "k">>, rect |-> BatchRect, value |-> <<>>],
     [type |-> "image", id |-> <<>>, rect |-> BatchRect, path |-> <<"/", "a">>],
     [type |-> "fontsize", fontSize |-> Num(15)],
     [type |-> "noclear"]}

Batches == UNION {[1..n -> BatchCommands] : n \in 1..MaxBatch}

InitShell ==
    /\ pc = "call"
    /\ commands \in Batches
    /\ payload = Idle
    /\ ParseIdle /\ RepairIdle /\ StringifyIdle /\ SizeIdle /\ ExecIdle

CallShell ==
    /\ pc = "call"
    /\ pc' = "done"
    /\ payload' = getSimpleShellCommand(commands)
    /\ UNCHANGED <<commands, parseVars, repairVars, stringifyVars, sizeVars, execVars>>

SpecShell == InitShell /\ [][CallShell]_vars

\* the type-specific trailing fields of a widget command
TrailingFields(c) ==
    CASE c.type \in TextTypes ->
            IF c.value = <<>> THEN <<>> ELSE <<repairDiacritics(c.value)>>
      [] c.type = "range" ->
            <<NumberToString(c.min), NumberToString(c.max), NumberToString(c.value)>>
      [] c.type = "image" -> <<c.path>>
      [] c.type = "canvas" -> <<c.rawPath, c.pngPath>>

IsWrapped(s) == Len(s) >= 2 /\ s[1] = "[" /\ s[Len(s)] = "]"

\* C7: a widget command serializes to the space-joined line of the header
\* token ("<type>:<id>" when the id is non-empty, bare "<type>" otherwise),
\* x, y, width, height and the type-specific trailing fields (the repaired
\* value only when it is non-empty; id and paths never repaired); the line is
\* wrapped in "[" and "]" exactly when the type is paragraph or textarea.
C7_WidgetLineFormat ==
    pc = "done" =>
        /\ command.type \in WidgetTypes =>
              LET header == IF command.id = <<>>
                            THEN TypeWord(command.type)
                            ELSE TypeWord(command.type) \o <<":">> \o command.id
                  body == Join(<<header,
                                 NumberToString(command.rect.x),
                                 NumberToString(command.rect.y),
                                 NumberToString(command.rect.width),
                                 NumberToString(command.rect.height)>>
                               \o TrailingFields(command), SPACE)
              IN  serialized = IF command.type \in {"paragraph", "textarea"}
                               THEN <<"[">> \o body \o <<"]">>
                               ELSE body
        /\ IsWrapped(serialized) <=> command.type \in {"paragraph", "textarea"}

\* a paragraph with an id and a value that ends in a problem letter has been
\* serialized, and an image whose path holds problem letters has been too
C7_Witness ==
    /\ pc = "done"
    /\ command.type = "paragraph"
    /\ command.id = <<"u00C1">>
    /\ command.value = <<"a", "\n", "u00E1">>
    /\ IsWrapped(serialized)

\* C6 as claimed: the payload of a batch of n commands has exactly n
\* newline-separated lines, the k-th being the k-th command's serialization.
C6_OneLinePerCommand ==
    pc = "done" =>
        LET ls == Split(payload, NEWLINE)
        IN  /\ Len(ls) = Len(commands)
            /\ \A k \in 1..Len(commands) : ls[k] = stringifySimpleCommand(commands[k])

\* C6 as amended: the newline-separated lines of the payload are, in batch
\* order, the newline-separated lines of each command's serialization; so
\* when no serialization contains a newline there are exactly n lines and the
\* k-th is the k-th command's serialization.
C6_LinesInBatchOrder ==
    pc = "done" =>
        LET ls == Split(payload, NEWLINE)
            each == [k \in 1..Len(commands) |->
                        Split(stringifySimpleCommand(commands[k]), NEWLINE)]
        IN  /\ ls = Flatten(each)
            /\ (\A k \in 1..Len(commands) : Len(each[k]) = 1) =>
                  /\ Len(ls) = Len(commands)
                  /\ \A k \in 1..Len(commands) :
                        ls[k] = stringifySimpleCommand(commands[k])

\* a batch of three commands, one of them a two-line paragraph, was joined
C6_Witness ==
    /\ pc = "done"
    /\ Len(commands) = 3
    /\ commands[2].type = "paragraph"
    /\ commands[1].type = "label"
    /\ Len(Split(payload, NEWLINE)) = 4

----------------------------------------------------------------------------
(* calculateTextWidgetSize *)

\* Numbers that need not be integers are exact fractions n/d with d > 0; the
\* rounding of IEEE doubles is not modelled.
Fraction(n, d) == [n |-> n, d |-> d]
Times(p, q) == Fraction(p.n * q.n, p.d * q.d)
SameNumber(p, q) == p.n * q.d = q.n * p.d

\* 1.3125
FONT_SIZE_TO_CHARACTER_HEIGHT == Fraction(21, 16)
\* 1 / 1.7
FONT_SIZE_TO_CHARACTER_WIDTH == Fraction(10, 17)

\* lines.length
Rows(lines) == Len(lines)

\* a bug: the length of the first line only
ColumnsOfFirstLine(lines) == Len(lines[1])
\* Math.max(...lines.map(line => line.length))
Columns(lines) == Max({Len(lines[k]) : k \in 1..Len(lines)})

calculateTextWidgetSize(fontSize, value) ==
    LET lines == Split(value, NEWLINE)
        rows == Rows(lines)
        columns == Columns(lines)
    IN  [width |-> Times(Times(Fraction(fontSize, 1), FONT_SIZE_TO_CHARACTER_WIDTH),
                         Fraction(columns, 1)),
         height |-> Times(Times(Fraction(fontSize, 1), FONT_SIZE_TO_CHARACTER_HEIGHT),
                          Fraction(rows, 1))]

FontSizes == {0, 7, 20, 0 - 3}
SizeValues == StringsUpTo({"a", "\n"}, MaxValueLen)

InitSize ==
    /\ pc = "call"
    /\ sizeArgs \in [fontSize : FontSizes, value : SizeValues]
    /\ size = Idle
    /\ ParseIdle /\ RepairIdle /\ StringifyIdle /\ ShellIdle /\ ExecIdle

CallSize ==
    /\ pc = "call"
    /\ pc' = "done"
    /\ size' = calculateTextWidgetSize(sizeArgs.fontSize, sizeArgs.value)
    /\ UNCHANGED <<sizeArgs, parseVars, repairVars, stringifyVars, shellVars, execVars>>

SpecSize == InitSize /\ [][CallSize]_vars

\* the number of newline-separated lines of v: one more than its newlines
LineCount(v) == 1 + Cardinality({i \in 1..Len(v) : v[i] = "\n"})

\* the length of the longest run of v without a newline
LongestLine(v) ==
    Max({k \in 0..Len(v) :
            \E i \in 1..(Len(v) - k + 1) : \A j \in i..(i + k - 1) : v[j] # "\n"})

----------------------------------------------------------------------------
(* executeSimpleScript *)

\* the printable ASCII characters, from code 32 (space) to code 126 (~); the
\* grave accent (code 96) is written by its code point
AsciiChars ==
    <<" ", "!", "\"", "#", "$", "%", "&", "'", "(", ")", "*", "+",
      ",", "-", ".", "/", "0", "1", "2", "3", "4", "5", "6", "7",
      "8", "9", ":", ";", "<", "=", ">", "?", "@", "A", "B", "C",
      "D", "E", "F", "G", "H", "I", "J", "K", "L", "M", "N", "O",
      "P", "Q", "R", "S", "T", "U", "V", "W", "X", "Y", "Z", "[",
      "\\", "]", "^", "_", "u0060", "a", "b", "c", "d", "e", "f", "g",
      "h", "i", "j", "k", "l", "m", "n", "o", "p", "q", "r", "s",
      "t", "u", "v", "w", "x", "y", "z", "{", "|", "}", "~">>

\* the byte the renderer writes for an ASCII character or a line feed
ByteOf(c) ==
    IF c = "\n" THEN 10 ELSE 31 + (CHOOSE k \in 1..Len(AsciiChars) : AsciiChars[k] = c)

\* the bytes of a text of ASCII characters and line feeds
Utf8(s) == [i \in 1..Len(s) |-> ByteOf(s[i])]

\* data.toString(): UTF-8 decoding of a Buffer.  The buffers of the model hold
\* printable ASCII bytes, line feeds and the byte 255, which is valid nowhere
\* in UTF-8 and decodes to U+FFFD.
DecodeByte(b) ==
    IF b = 10 THEN "\n"
    ELSE IF b >= 32 /\ b <= 126 THEN AsciiChars[b - 31]
    ELSE "uFFFD"
BufferToString(data) == [i \in 1..Len(data) |-> DecodeByte(data[i])]

\* what the renderer may write in one chunk
DataChunks ==
    {Utf8(<<"s", "e", "l", "e", "c", "t", "e", "d", ":", " ", "o", "k", "\n">>),
     Utf8(<<"i", "n", "p", "u", "t", ":", " ", "a", " ", ":", " ", "7", "\n">>),
     Utf8(<<"i", "n", "p", "u", "t", ":", "a">>),
     Utf8(GARBAGE),
     <<255>>}

\* the errors the output stream may emit
StreamErrors == {[type |-> "Error", code |-> "EIO"], [type |-> "Error", code |-> "EPIPE"]}
NoError == [type |-> "none", code |-> "none"]

\* promise states
Pending == [state |-> "pending", value |-> Undefined]
Fulfilled(v) == [state |-> "fulfilled", value |-> v]
Rejected(e) == [state |-> "rejected", value |-> e]

\* a bug: a deferred that settles again when it is already settled
ResolveOverwrites(p, v) == Fulfilled(v)
\* resolve(v) of a promise executor: a settled promise stays as it is
Resolve(p, v) == IF p.state = "pending" THEN Fulfilled(v) ELSE p

\* reject(e) of a promise executor: a settled promise stays as it is
Reject(p, e) == IF p.state = "pending" THEN Rejected(e) ELSE p

\* the reaction job of .then(parseSimpleOutput) is queued when the executor's
\* promise settles
QueueThen(before, after) ==
    IF before.state = "pending" /\ after.state # "pending" THEN <<"then">> ELSE <<>>

\* the batches executeSimpleScript is called with
ExecBatches ==
    {<<>>,
     <<[type |-> "noclear"],
       [type |-> "button", id |-> <<"o", "k">>, rect |-> BatchRect, value |-> <<"a">>]>>}

\* The state when executeSimpleScript(...commands) has returned: the payload
\* is built and handed to the process's input, the process runs, nothing has
\* been read, both promises are pending.
InitExec ==
    /\ pc = "call"
    /\ commands \in ExecBatches
    /\ payload = getSimpleShellCommand(commands)
    /\ proc = "running"
    /\ stdout = <<>>
    /\ settled = Pending
    /\ promise = Pending
    /\ jobs = <<>>
    /\ stream = [closed |-> FALSE, error |-> NoError]
    /\ chunks = <<>>
    /\ ParseIdle /\ RepairIdle /\ StringifyIdle /\ SizeIdle

execFrame == <<pc, commands, payload, parseVars, repairVars, stringifyVars, sizeVars>>

\* process.stdout.on("data", data => { stdout = data.toString() })
OnData ==
    /\ ~stream.closed
    /\ jobs = <<>>
    /\ Len(chunks) < MaxChunks
    /\ \E data \in DataChunks :
          /\ stdout' = BufferToString(data)
          /\ chunks' = Append(chunks, data)
    /\ UNCHANGED <<proc, settled, promise, jobs, stream, execFrame>>

\* process.stdout.on("error", error => { reject(error) })
OnError ==
    /\ ~stream.closed
    /\ stream.error = NoError
    /\ jobs = <<>>
    /\ \E error \in StreamErrors :
          /\ stream' = [stream EXCEPT !.error = error]
          /\ settled' = Reject(settled, error)
          /\ jobs' = QueueThen(settled, settled')
    /\ UNCHANGED <<proc, stdout, promise, chunks, execFrame>>

\* process.stdout.on("close", () => { resolve(stdout) })
OnClose ==
    /\ ~stream.closed
    /\ jobs = <<>>
    /\ stream' = [stream EXCEPT !.closed = TRUE]
    /\ settled' = Resolve(settled, stdout)
    /\ jobs' = QueueThen(settled, settled')
    /\ UNCHANGED <<proc, stdout, promise, chunks, execFrame>>

\* the reaction of .then(parseSimpleOutput): a fulfilment is parsed, and the
\* derived promise takes the parser's outcome; a rejection is passed on
ThenReaction ==
    /\ jobs # <<>>
    /\ jobs' = <<>>
    /\ promise' =
          IF settled.state = "fulfilled"
          THEN LET r == parseSimpleOutput(settled.value)
               IN  IF r.kind = "return" THEN Fulfilled(r.value) ELSE Rejected(r.value)
          ELSE Rejected(settled.value)
    /\ UNCHANGED <<proc, stdout, settled, stream, chunks, execFrame>>

\* a bug: cancel() that also rejects the promise
CancelRejects ==
    /\ proc = "running"
    /\ jobs = <<>>
    /\ proc' = "killed"
    /\ settled' = Reject(settled, [type |-> "Error", code |-> "CANCELLED"])
    /\ jobs' = jobs \o QueueThen(settled, settled')
    /\ UNCHANGED <<stdout, promise, stream, chunks, execFrame>>
\* cancel() { process?.kill() }, called by the holder of the handle in a task
\* of its own: reaction jobs run to completion before the next task starts
Cancel ==
    /\ proc = "running"
    /\ jobs = <<>>
    /\ proc' = "killed"
    /\ UNCHANGED <<stdout, settled, promise, jobs, stream, chunks, execFrame>>

NextExec == OnData \/ OnError \/ OnClose \/ ThenReaction \/ Cancel

Spec == InitExec /\ [][NextExec]_vars

\* the text the last chunk decodes to, the empty string when none was read
LastChunkText ==
    IF Len(chunks) = 0 THEN <<>> ELSE BufferToString(chunks[Len(chunks)])

\* the stream has closed without an error event and no reaction is waiting
ClosedNormally == stream.closed /\ stream.error = NoError /\ jobs = <<>>

\* C3 as claimed: once cancel() has been invoked with the promise unsettled,
\* the promise stays pending in every later state, also after the killed
\* process's output stream has closed.  (Stated for the runs in which the
\* stream emits no error, so that only the close is left to settle it.)
C3_CancelledStaysPending ==
    [][(proc = "killed" /\ stream.error = NoError /\ promise.state = "pending")
          => (stream'.error # NoError \/ promise'.state = "pending")]_vars

\* C3 as amended: cancel() kills the process and settles nothing by itself:
\* the step of cancel() changes neither promise and queues no reaction.  The
\* promise is settled only by the stream's events: it is settled only when an
\* error or the close has been handled, and once the output stream of the
\* killed process has closed and the reaction has run, the promise is settled
\* (fulfilled with the parse of the last chunk, or rejected).
C3_CancelSettlesNothing ==
    /\ [][(proc = "running" /\ proc' = "killed") =>
              (settled' = settled /\ promise' = promise /\ jobs' = jobs)]_vars
    /\ [](promise.state # "pending" => (stream.closed \/ stream.error # NoError))
    /\ []((proc = "killed" /\ stream.closed /\ jobs = <<>>) =>
              promise.state # "pending")

\* cancel() has been invoked after a chunk was read, with the stream still
\* open and both promises unsettled
C3_Witness ==
    /\ proc = "killed"
    /\ Len(chunks) = 1
    /\ ~stream.closed
    /\ stream.error = NoError
    /\ settled.state = "pending"
    /\ promise.state = "pending"

\* C4: after any sequence of data chunks and a normal close (no error event)
\* the promise is fulfilled with parseSimpleOutput of the last chunk received
\* only; with no chunk the parsed text is empty and the result is undefined.
C4_FulfilledWithLastChunk ==
    ClosedNormally =>
        /\ promise.state = "fulfilled"
        /\ parseSimpleOutput(LastChunkText).kind = "return"
        /\ promise.value = parseSimpleOutput(LastChunkText).value
        /\ Len(chunks) = 0 => promise.value = Undefined

\* After a normal close the promise has the outcome of parseSimpleOutput of
\* the last chunk: its value when it returns, its exception when it throws.
OutcomeOfLastChunk ==
    ClosedNormally =>
        LET r == parseSimpleOutput(LastChunkText)
        IN  promise = IF r.kind = "return" THEN Fulfilled(r.value) ELSE Rejected(r.value)

\* C5: an error event of the output stream before its close rejects the
\* promise with that error; no close or data chunk afterwards turns the
\* outcome into a fulfilment, and a settled promise never changes.
C5_ErrorRejectsOnce ==
    /\ [](stream.error # NoError =>
              /\ settled = Rejected(stream.error)
              /\ promise.state # "fulfilled"
              /\ jobs = <<>> => promise = Rejected(stream.error))
    /\ [][promise.state # "pending" => promise' = promise]_vars
    /\ [][settled.state # "pending" => settled' = settled]_vars

\* an error was emitted after a chunk was read, the stream then closed, and
\* the promise is rejected with the error
C5_Witness ==
    /\ stream.error \in StreamErrors
    /\ stream.closed
    /\ Len(chunks) >= 1
    /\ jobs = <<>>
    /\ promise = Rejected(stream.error)

====
